---- MODULE Spec2Model ----
(***************************************************************************)
(* Model of the Gerrit history preservation pipeline:                      *)
(*   GerritHistoryPreserver.preserve_history / export_changes_with_html,   *)
(*   GitManager.init_repo / commit_files, MetadataExporter.save_metadata   *)
(*   and HTMLGenerator.generate_index_html.                                *)
(* One behaviour is one or two calls of the orchestrator on the same       *)
(* output directory, repository path and review server.                    *)
(***************************************************************************)
EXTENDS Integers, Sequences, FiniteSets, TLC

\* ------------------------------------------------------------------ bounds
\* Change numbers are 1..MaxChanges; a query result holds each at most once.
MaxChanges == 2
\* Creation timestamps are 1..MaxCreated.
MaxCreated == 2
\* At most MaxFaults failures (server, file system, git) are injected.
MaxFaults == 1
\* The naming policy is applied to every subject of up to MaxSubjectLen
\* characters (and to some longer ones).
MaxSubjectLen == 2
\* A path of a change carries at most MaxComments inline comments.
MaxComments == 1

\* ------------------------------------------------- constants of the program
PadWidth == 4
SubjectLimit == 50

Numbers == 1..MaxChanges

\* ------------------------------------------------------------ naming policy
\* The characters str.isalnum() accepts among those the model uses.
AlnumChars ==
  {"a", "b", "c", "d", "e", "f", "g", "h", "i", "j", "k", "l", "m", "n", "o",
   "p", "q", "r", "s", "t", "u", "v", "w", "x", "y", "z",
   "A", "B", "C", "D", "E", "F", "G", "H", "I", "J", "K", "L", "M", "N", "O",
   "P", "Q", "R", "S", "T", "U", "V", "W", "X", "Y", "Z",
   "0", "1", "2", "3", "4", "5", "6", "7", "8", "9"}

isalnum(c) == c \in AlnumChars

\* c if c.isalnum() or c in ('-', '_') else '_'
SafeChar(c) == IF isalnum(c) \/ c \in {"-", "_"} THEN c ELSE "_"

\* No truncation: the first argument whatever the limit.
NoLimit(a, b) == a

Min(a, b) == IF a < b THEN a ELSE b

\* "".join(SafeChar(c) for c in subject[:50])
SafeSubject(subject) ==
  [i \in 1..Min(Len(subject), SubjectLimit) |-> SafeChar(subject[i])]

DigitChar(d) == <<"0", "1", "2", "3", "4", "5", "6", "7", "8", "9">>[d + 1]

RECURSIVE Digits(_)
Digits(n) == IF n < 10 THEN <<DigitChar(n)>>
             ELSE Digits(n \div 10) \o <<DigitChar(n % 10)>>

RECURSIVE ZeroFill(_, _)
ZeroFill(s, width) == IF Len(s) >= width THEN s ELSE ZeroFill(<<"0">> \o s, width)

\* The number cut to its last four digits.
PadNumberTruncated(n) == ZeroFill(Digits(n % 10000), PadWidth)

\* The number padded to seven digits.
PadNumberToSeven(n) == ZeroFill(Digits(n), PadWidth + 3)

\* f"{change_number:04d}"
PadNumber(n) == ZeroFill(Digits(n), PadWidth)

\* f"{change_number:04d}-{safe_subject}", the stem of a patch or html file name
FileStem(n, safe) == PadNumber(n) \o <<"-">> \o safe

Identifier(n, subject) == FileStem(n, SafeSubject(subject))

\* ------------------------------------------------------- the review server
\* The subject the server holds for each change number.
SubjectOf(n) ==
  IF n = 1 THEN <<"F", "i", "x", " ", "a">>
  ELSE IF n = 2 THEN <<"a", "/", "b", "-", "c">>
  ELSE <<>>

\* A change summary as returned by get_changes: '_number', 'subject',
\* 'created', and whether 'current_revision' is present.
ChangeSummaries ==
  {[number |-> n, subject |-> SubjectOf(n), created |-> t, rev |-> r] :
     n \in Numbers, t \in 1..MaxCreated, r \in BOOLEAN}

DistinctNumbers(s) ==
  \A i, j \in DOMAIN s : i # j => s[i].number # s[j].number

\* The possible answers of the server to the query (numbers are unique).
QueryResults ==
  {s \in UNION {[1..k -> ChangeSummaries] : k \in 0..MaxChanges} :
     DistinctNumbers(s)}

\* What the server does with the fetches of one change: all succeed, or the
\* named fetch fails; "unknown" until the change is first fetched.
FetchOutcomes == {"ok", "detail", "comments", "files", "patch"}

\* -------------------------------------------------------------- list.sort
\* key=lambda x: x.get('created', '')
CreatedKey(c) == c.created

\* An unstable insertion: x goes in front of the elements with its key.
RECURSIVE InsertUnstable(_, _)
InsertUnstable(x, s) ==
  IF s = <<>> THEN <<x>>
  ELSE IF CreatedKey(s[Len(s)]) < CreatedKey(x) THEN Append(s, x)
  ELSE Append(InsertUnstable(x, SubSeq(s, 1, Len(s) - 1)), s[Len(s)])

\* Insert x behind every element whose key is <= its own (stable).
RECURSIVE InsertStable(_, _)
InsertStable(x, s) ==
  IF s = <<>> THEN <<x>>
  ELSE IF CreatedKey(s[Len(s)]) <= CreatedKey(x) THEN Append(s, x)
  ELSE Append(InsertStable(x, SubSeq(s, 1, Len(s) - 1)), s[Len(s)])

RECURSIVE SortFrom(_, _, _)
SortFrom(s, k, acc) ==
  IF k > Len(s) THEN acc ELSE SortFrom(s, k + 1, InsertStable(s[k], acc))

\* changes.sort(key=...): Python's sort is stable.
SortByCreated(s) == SortFrom(s, 1, <<>>)

\* ------------------------------------------------------------ file systems
\* A file is <<directory, name, content>>; a tree is a set of files with at
\* most one file per (directory, name).
WriteFile(tree, dir, name, content) ==
  {f \in tree : ~(f[1] = dir /\ f[2] = name)} \cup {<<dir, name, content>>}

HasFile(tree, dir, name) == \E f \in tree : f[1] = dir /\ f[2] = name

FilesIn(tree, dir) == {f \in tree : f[1] = dir}

IndexName == <<"index">>
AggregateName == <<"gerrit_export_metadata">>
EmptyDict == <<>>
Unbound == <<"unbound">>


\* ------------------------------------------------------------------- state
VARIABLES
  mode,          \* "preserve" (preserve_history) or "export" (export_changes_with_html)
  server,        \* the answer of the review server to the query
  srv,           \* per change number: the outcome of its fetches on the server
  repo,          \* the git repository at repo_path
  out,           \* the files under output_dir
  pc,            \* position of the running call
  init_result,   \* what init_repo returned: "none", "True", "False" or "path"
  changes,       \* local: the list of changes
  idx,           \* local: index of the change being processed
  patch_files,   \* local: patch_files list
  html_files,    \* local: html_files list
  comments_map,  \* local: comments_map dict
  files_map,     \* local: files_map dict
  safe_subject,  \* local: safe_subject, Unbound before its first assignment
  commit_result, \* what commit_files returned: "none", "True" or "False"
  result,        \* what the call returned or raised
  log,           \* history: client calls, writes, failures and stages, in order
  ioFaults,      \* history: number of injected file-system and git failures
  second,        \* history: TRUE in the second call on the same paths
  first          \* history: how the first call ended, "none" during it

vars == <<mode, server, srv, repo, out, pc, init_result, changes, idx,
          patch_files, html_files, comments_map, files_map, safe_subject,
          commit_result, result, log, ioFaults, second, first>>

locals == <<changes, idx, patch_files, html_files, comments_map, files_map,
            safe_subject>>

runs == <<second, first>>

\* Number of changes whose fetch the server fails.
SrvFaults == Cardinality({n \in Numbers : srv[n] \notin {"unknown", "ok"}})

\* One more failure may still be injected.
CanFault == ioFaults + SrvFaults < MaxFaults

NoResult == [kind |-> "none", total_changes |-> 0, patches_stored |-> 0,
             html_files |-> 0, repo_path |-> "none", branch_name |-> "none",
             html_index |-> <<>>]

ReadmeFile == <<"", <<"README">>, "full">>

\* No directory at repo_path.
AbsentRepo == [git |-> FALSE, commits |-> 0, branch |-> "none",
               archive |-> FALSE, work |-> {}, head |-> {}]

\* A repository of the user that exists before the run, its tree committed.
UserRepo == [git |-> TRUE, commits |-> 1, branch |-> "master",
             archive |-> FALSE, work |-> {}, head |-> {}]

NoFirst == [pc |-> "none", result |-> NoResult, repo |-> AbsentRepo,
            out |-> {}]

InitWith(modes, answers) ==
  /\ mode \in modes
  /\ server \in answers
  /\ srv = [n \in Numbers |-> "unknown"]
  /\ repo \in IF mode = "preserve" THEN {AbsentRepo, UserRepo} ELSE {AbsentRepo}
  /\ out = {}
  /\ pc = IF mode = "preserve" THEN "init" ELSE "query"
  /\ init_result = "none"
  /\ changes = <<>>
  /\ idx = 0
  /\ patch_files = <<>>
  /\ html_files = <<>>
  /\ comments_map = EmptyDict
  /\ files_map = EmptyDict
  /\ safe_subject = Unbound
  /\ commit_result = "none"
  /\ result = NoResult
  /\ log = <<>>
  /\ ioFaults = 0
  /\ second = FALSE
  /\ first = NoFirst

Init == InitWith({"preserve", "export"}, QueryResults)

Raise(what) ==
  /\ pc' = "aborted"
  /\ result' = [NoResult EXCEPT !.kind = what]


Logged(kind, n) == log' = Append(log, <<kind, n>>)

\* An injected file-system or git failure.
IoFault == CanFault /\ ioFaults' = ioFaults + 1

\* ---------------------------------------------------- GitManager.init_repo
BranchName == "gerrit-history"

\* The steps of init_repo on a path without .git, in order.
InitSteps == <<"makedirs", "git_init", "readme", "git_add", "git_commit",
               "checkout">>

\* The repository after the first k steps of a fresh initialization.
RepoAfterInit(r, k) ==
  [git     |-> r.git \/ k >= 2,
   commits |-> IF k >= 5 THEN r.commits + 1 ELSE r.commits,
   branch  |-> IF k >= 6 THEN BranchName
               ELSE IF k >= 2 THEN "master" ELSE r.branch,
   archive |-> r.archive,
   work    |-> IF k >= 3 THEN r.work \cup {ReadmeFile} ELSE r.work,
   head    |-> IF k >= 5 THEN r.head \cup {ReadmeFile} ELSE r.head]

\* is_existing_repo = os.path.exists(git_dir)
IsExistingRepo(r) == r.git

\* The result of init_repo is not checked.
AnyInitResult(ret) == TRUE

\* What preserve_history makes of init_repo's return value: `if not ...`.
InitSucceeded(ret) == ret \in {"True", "path"}

\* init_repo followed by the check of its result in preserve_history.
InitRepo ==
  /\ pc = "init"
  /\ \/ /\ IsExistingRepo(repo)
        /\ \/ /\ repo' = [repo EXCEPT !.archive = TRUE]
              /\ init_result' = "path"
              /\ UNCHANGED ioFaults
           \/ /\ IoFault
              /\ init_result' = "False"
              /\ UNCHANGED repo
     \/ /\ ~IsExistingRepo(repo)
        /\ \E k \in 0..Len(InitSteps) :
             /\ repo' = RepoAfterInit(repo, k)
             /\ IF k = Len(InitSteps)
                  THEN init_result' = "True" /\ UNCHANGED ioFaults
                  ELSE init_result' = "False" /\ IoFault
  /\ Logged("init", 0)
  /\ IF InitSucceeded(init_result')
       THEN pc' = "query" /\ UNCHANGED result
       ELSE Raise("init_failed")
  /\ UNCHANGED <<runs, mode, server, srv, out, locals, commit_result>>

\* ------------------------------------------------ makedirs and get_changes
\* Neither function sorts the answer.
AsAnswered(m, answer) == answer

\* preserve_history sorts the answer; export_changes_with_html does not.
Ordered(m, answer) == IF m = "preserve" THEN SortByCreated(answer) ELSE answer

QueryChanges ==
  /\ pc = "query"
  /\ \/ /\ changes' = Ordered(mode, server)
        /\ idx' = 1
        /\ Logged("query", 0)
        /\ pc' = "loop"
        /\ UNCHANGED <<result, ioFaults>>
     \/ /\ IoFault                       \* os.makedirs raises
        /\ Raise("error")
        /\ UNCHANGED <<changes, idx, log>>
     \/ /\ IoFault                       \* get_changes raises
        /\ Logged("query", 0)
        /\ Raise("error")
        /\ UNCHANGED <<changes, idx>>
  /\ UNCHANGED <<runs, mode, server, srv, repo, out, init_result, patch_files,
                 html_files, comments_map, files_map, safe_subject,
                 commit_result>>

\* ------------------------------------------------------- the per-change loop
Current == changes[idx]

InLoop == pc = "loop" /\ idx <= Len(changes)

\* No change is skipped.
NeverSkipped(c) == FALSE

\* if not current_revision: continue
Skipped(c) == ~c.rev

SkipChange ==
  /\ InLoop
  /\ Skipped(Current)
  /\ Logged("begin", Current.number)
  /\ idx' = idx + 1
  /\ UNCHANGED <<runs, mode, server, srv, repo, out, pc, init_result, changes,
                 patch_files, html_files, comments_map, files_map,
                 safe_subject, commit_result, result, ioFaults>>

\* The client calls the try block of the three fetches issues when the
\* server's outcome for the change is o.
FetchCalls(n, o) ==
  <<<<"begin", n>>, <<"detail", n>>>>
    \o (IF o # "detail" THEN <<<<"comments", n>>>> ELSE <<>>)
    \o (IF o \notin {"detail", "comments"} THEN <<<<"files", n>>>> ELSE <<>>)

\* Only a failure of the detail fetch ends the change.
OnlyDetailFailed(o) == o = "detail"

\* The try block raised: one of the three fetches failed.
FetchFailed(o) == o \in {"detail", "comments", "files"}

\* dict[key] = value
DictSet(d, key, value) ==
  [k \in DOMAIN d \cup {key} |-> IF k = key THEN value ELSE d[k]]

\* dict.get(key, {})
DictGet(d, key) == IF key \in DOMAIN d THEN d[key] ELSE EmptyDict

CommentsOf(n) == <<"comments", n>>
FilesOf(n) == <<"files", n>>

FetchDetails ==
  /\ InLoop
  /\ ~Skipped(Current)
  /\ LET n == Current.number IN
     \E o \in FetchOutcomes :
       /\ \/ /\ srv[n] = "unknown"
             /\ o = "ok" \/ CanFault
             /\ srv' = [srv EXCEPT ![n] = o]
          \/ /\ srv[n] = o
             /\ UNCHANGED srv
       /\ log' = log \o FetchCalls(n, o)
       /\ IF FetchFailed(o)
            THEN /\ idx' = idx + 1
                 /\ UNCHANGED <<pc, comments_map, files_map>>
            ELSE /\ pc' = "patch"
                 /\ IF mode = "preserve"
                      THEN /\ comments_map' = DictSet(comments_map, n, CommentsOf(n))
                           /\ files_map' = DictSet(files_map, n, FilesOf(n))
                      ELSE UNCHANGED <<comments_map, files_map>>
                 /\ UNCHANGED idx
  /\ UNCHANGED <<runs, mode, server, repo, out, init_result, changes, patch_files,
                 html_files, safe_subject, commit_result, result, ioFaults>>


\* The patch export is not guarded: its failure ends the run.
AbortAfterPatchFailure(m) == "aborted"

\* The document is exported whether or not the patch export raised.
ContinueWithDocument(m) == "doc"

\* Where the loop goes when the patch export raised: preserve_history has a
\* `continue` in the except block, export_changes_with_html has none.
AfterPatchFailure(m) == IF m = "preserve" THEN "loop" ELSE "doc"

PatchFailed ==
  /\ log' = log \o <<<<"patch", Current.number>>, <<"xpatch", Current.number>>>>
  /\ pc' = AfterPatchFailure(mode)
  /\ idx' = IF AfterPatchFailure(mode) = "loop" THEN idx + 1 ELSE idx

\* safe_subject is assigned before get_patch in preserve_history and after
\* it in export_changes_with_html.
SafeSubjectAfterFailedFetch(m, old, new) == IF m = "preserve" THEN new ELSE old

ExportPatch ==
  /\ pc = "patch"
  /\ LET n == Current.number
         safe == SafeSubject(Current.subject)
         stem == FileStem(n, safe)
         fetched == srv[n] # "patch"
     IN
     /\ \/ /\ fetched                     \* the patch is fetched and written
           /\ out' = WriteFile(out, "patches", stem, "full")
           /\ log' = log \o <<<<"patch", n>>, <<"wpatch", n>>>>
           /\ patch_files' = Append(patch_files, stem)
           /\ safe_subject' = safe
           /\ pc' = "doc"
           /\ UNCHANGED <<idx, ioFaults>>
        \/ /\ ~fetched                    \* get_patch raises
           /\ safe_subject' = SafeSubjectAfterFailedFetch(mode, safe_subject, safe)
           /\ PatchFailed
           /\ UNCHANGED <<out, patch_files, ioFaults>>
        \/ /\ fetched                     \* open raises
           /\ IoFault
           /\ safe_subject' = safe
           /\ PatchFailed
           /\ UNCHANGED <<out, patch_files>>
        \/ /\ fetched                     \* f.write raises: a truncated file
           /\ IoFault
           /\ out' = WriteFile(out, "patches", stem, "partial")
           /\ safe_subject' = safe
           /\ PatchFailed
           /\ UNCHANGED patch_files
  /\ UNCHANGED <<runs, mode, server, srv, repo, init_result, changes, html_files,
                 comments_map, files_map, commit_result, result>>

ExportDoc ==
  /\ pc = "doc"
  /\ LET n == Current.number
         stem == FileStem(n, safe_subject)
     IN
     \/ /\ safe_subject # Unbound         \* rendered and written
        /\ out' = WriteFile(out, "html", stem, "full")
        /\ html_files' = Append(html_files, stem)
        /\ Logged("wdoc", n)
        /\ UNCHANGED ioFaults
     \/ /\ safe_subject = Unbound         \* NameError building html_filename
        /\ UNCHANGED <<out, html_files, log, ioFaults>>
     \/ /\ safe_subject # Unbound         \* generate_change_html or open raises
        /\ IoFault
        /\ Logged("xdoc", n)
        /\ UNCHANGED <<out, html_files>>
     \/ /\ safe_subject # Unbound         \* f.write raises: a truncated file
        /\ IoFault
        /\ out' = WriteFile(out, "html", stem, "partial")
        /\ Logged("xdoc", n)
        /\ UNCHANGED html_files
  /\ idx' = idx + 1
  /\ pc' = "loop"
  /\ UNCHANGED <<runs, mode, server, srv, repo, init_result, changes, patch_files,
                 comments_map, files_map, safe_subject, commit_result, result>>

\* ------------------------------------------ HTMLGenerator.generate_index_html
\* One row per change of the list, linking to the change's html file name.
IndexRow(c) == [number |-> c.number, href |-> Identifier(c.number, c.subject)]

\* The rows in the reverse order of the list.
ReversedIndexRows(cs) == [i \in 1..Len(cs) |-> IndexRow(cs[Len(cs) + 1 - i])]

\* The index starts with a row that belongs to no change.
IndexRowsUnderHeading(cs) ==
  <<[number |-> 0, href |-> IndexName]>> \o [i \in 1..Len(cs) |-> IndexRow(cs[i])]

IndexRows(cs) == [i \in 1..Len(cs) |-> IndexRow(cs[i])]

\* The metadata export is left out.
StraightToStaging(m) == IF m = "preserve" THEN "stage" ELSE "return"

AfterIndex(m) == IF m = "preserve" THEN "metadata" ELSE "return"

BuildIndex ==
  /\ pc = "loop"
  /\ idx > Len(changes)
  /\ Logged("index", 0)
  /\ \/ /\ out' = WriteFile(out, "html", IndexName, IndexRows(changes))
        /\ pc' = AfterIndex(mode)
        /\ UNCHANGED <<result, ioFaults>>
     \/ /\ IoFault                        \* a KeyError in a row, or open raises
        /\ Raise("error")
        /\ UNCHANGED out
     \/ /\ IoFault                        \* f.write raises: a truncated file
        /\ out' = WriteFile(out, "html", IndexName, "partial")
        /\ Raise("error")
  /\ UNCHANGED <<runs, mode, server, srv, repo, init_result, locals, commit_result>>


\* ------------------------------------------- MetadataExporter.save_metadata
\* The object get_change_detail returns for change n.
DetailOf(n) == <<"detail", n>>

\* The entry holds the fetched detail of the change.
DetailAsChange(c) == DetailOf(c.number)

\* The object get_changes returned for the change.
SummaryOf(c) == <<"summary", c.number>>

\* {'change': change, 'comments': comments_map.get(..), 'files': files_map.get(..)}
MetadataEntry(c, cm, fm) ==
  [change |-> SummaryOf(c), comments |-> DictGet(cm, c.number),
   files |-> DictGet(fm, c.number)]

\* Entries only for the changes that have an entry in comments_map.
OnlyDetailedChanges(cs, cm) ==
  SelectSeq(cs, LAMBDA c : c.number \in DOMAIN cm)

\* The changes save_metadata writes an entry for: every change it is given.
MetadataChanges(cs, cm) == cs

MetadataEntries(cs, cm, fm) ==
  LET es == MetadataChanges(cs, cm)
  IN  [i \in 1..Len(es) |-> MetadataEntry(es[i], cm, fm)]

\* full_metadata, without the export date and the url
FullMetadata(cs, cm, fm) ==
  [total_changes |-> Len(cs), changes |-> MetadataEntries(cs, cm, fm)]

\* f'change-{change_num:04d}.json'
ChangeFileName(n) == <<"change-">> \o PadNumber(n)

\* Only the aggregate document is written.
AggregateOnly(cs, cm, fm) ==
  <<<<"metadata", AggregateName, FullMetadata(cs, cm, fm)>>>>

\* The files save_metadata writes, in the order it writes them.
MetadataWrites(cs, cm, fm) ==
  LET es == MetadataEntries(cs, cm, fm) IN
  <<<<"metadata", AggregateName, FullMetadata(cs, cm, fm)>>>>
    \o [i \in 1..Len(es) |->
          <<"metadata", ChangeFileName(es[i].change[2]), es[i]>>]

\* The tree after the first k files of ws are written.
RECURSIVE ApplyWrites(_, _, _)
ApplyWrites(tree, ws, k) ==
  IF k = 0 THEN tree
  ELSE LET w == ws[k]
       IN  WriteFile(ApplyWrites(tree, ws, k - 1), w[1], w[2], w[3])

SaveMetadata ==
  /\ pc = "metadata"
  /\ Logged("metadata", 0)
  /\ LET ws == MetadataWrites(changes, comments_map, files_map) IN
     \/ /\ out' = ApplyWrites(out, ws, Len(ws))
        /\ pc' = "stage"
        /\ UNCHANGED <<result, ioFaults>>
     \/ /\ IoFault                  \* makedirs, or the open of file k+1, raises
        /\ \E k \in 0..(Len(ws) - 1) : out' = ApplyWrites(out, ws, k)
        /\ Raise("error")
     \/ /\ IoFault                  \* json.dump of file k+1 raises: truncated
        /\ \E k \in 0..(Len(ws) - 1) :
             out' = WriteFile(ApplyWrites(out, ws, k), ws[k + 1][1],
                              ws[k + 1][2], "partial")
        /\ Raise("error")
  /\ UNCHANGED <<runs, mode, server, srv, repo, init_result, locals, commit_result>>

\* ------------------------------------------------- copying into the repository
ContentOf(tree, dir, name) ==
  (CHOOSE f \in tree : f[1] = dir /\ f[2] = name)[3]

\* os.path.join(repo_path, sub): the path init_repo returned is not used.
RepoDir(ret, sub) == sub

ArchiveDir(sub) ==
  IF sub = "patches" THEN "gerrit-archive/patches" ELSE "gerrit-archive/html"

CopyOf(tree, ret, sub, name) ==
  <<RepoDir(ret, sub), name, ContentOf(tree, sub, name)>>

\* The copies of the three loops in order: patches, html files, index.html.
RepoCopies(tree, ret, pf, hf) ==
  [i \in 1..Len(pf) |-> CopyOf(tree, ret, "patches", pf[i])]
    \o [i \in 1..Len(hf) |-> CopyOf(tree, ret, "html", hf[i])]
    \o (IF HasFile(tree, "html", IndexName)
          THEN <<CopyOf(tree, ret, "html", IndexName)>> ELSE <<>>)

StageIntoRepo ==
  /\ pc = "stage"
  /\ Logged("stage", 0)
  /\ LET cps == RepoCopies(out, init_result, patch_files, html_files) IN
     \/ /\ repo' = [repo EXCEPT !.work = ApplyWrites(repo.work, cps, Len(cps))]
        /\ pc' = "commit"
        /\ UNCHANGED <<result, ioFaults>>
     \/ /\ IoFault                  \* makedirs or copy k+1 raises
        /\ \E k \in 0..(Len(cps) - 1) :
             repo' = [repo EXCEPT !.work = ApplyWrites(repo.work, cps, k)]
        /\ Raise("error")
  /\ UNCHANGED <<runs, mode, server, srv, out, init_result, locals, commit_result>>

\* -------------------------------------------------- GitManager.commit_files
\* git commit always creates a commit (as with --allow-empty).
AlwaysSomethingToCommit(r) == FALSE

\* git commit declines to create a commit when nothing differs from HEAD.
NothingToCommit(r) == r.work = r.head

CommitFiles ==
  /\ pc = "commit"
  /\ Logged("commit", 0)
  /\ \/ /\ NothingToCommit(repo)    \* git commit exits 1: CalledProcessError
        /\ commit_result' = "False"
        /\ UNCHANGED <<repo, ioFaults>>
     \/ /\ ~NothingToCommit(repo)
        /\ repo' = [repo EXCEPT !.head = repo.work, !.commits = @ + 1]
        /\ commit_result' = "True"
        /\ UNCHANGED ioFaults
     \/ /\ IoFault                  \* git add or git commit fails otherwise
        /\ commit_result' = "False"
        /\ UNCHANGED repo
  /\ pc' = "return"
  /\ UNCHANGED <<runs, mode, server, srv, out, init_result, locals, result>>

\* ---------------------------------------------------------------- the return
\* The arguments repo_path and output_dir of the call.
RepoPath == "repo_path"
OutputDir == "output_dir"

\* os.path.join(html_dir, 'index.html')
IndexPath == <<OutputDir, "html", IndexName>>

\* Every queried change is counted as a stored patch.
SummaryCountingQueried(m, cs, pf, hf) ==
  [kind |-> "summary", total_changes |-> Len(cs), patches_stored |-> Len(cs),
   html_files |-> Len(hf), repo_path |-> RepoPath, branch_name |-> BranchName,
   html_index |-> IndexPath]

\* The dictionary preserve_history returns; export_changes_with_html returns
\* its two lists only.
Summary(m, cs, pf, hf) ==
  IF m = "preserve"
    THEN [kind |-> "summary", total_changes |-> Len(cs),
          patches_stored |-> Len(pf), html_files |-> Len(hf),
          repo_path |-> RepoPath, branch_name |-> BranchName,
          html_index |-> IndexPath]
    ELSE [NoResult EXCEPT !.kind = "export", !.patches_stored = Len(pf),
                          !.html_files = Len(hf)]

ReturnSummary ==
  /\ pc = "return"
  /\ result' = Summary(mode, changes, patch_files, html_files)
  /\ pc' = "done"
  /\ UNCHANGED <<runs, mode, server, srv, repo, out, init_result, locals,
                 commit_result, log, ioFaults>>

\* ------------------------------------------------------- a second call
\* The caller runs preserve_history again on the same output directory,
\* repository path and server; the locals of the first call are gone.
StartSecondRun ==
  /\ pc \in {"done", "aborted"}
  /\ ~second
  /\ second' = TRUE
  /\ first' = [pc |-> pc, result |-> result, repo |-> repo, out |-> out]
  /\ pc' = IF mode = "preserve" THEN "init" ELSE "query"
  /\ init_result' = "none"
  /\ changes' = <<>>
  /\ idx' = 0
  /\ patch_files' = <<>>
  /\ html_files' = <<>>
  /\ comments_map' = EmptyDict
  /\ files_map' = EmptyDict
  /\ safe_subject' = Unbound
  /\ commit_result' = "none"
  /\ result' = NoResult
  /\ log' = <<>>
  /\ UNCHANGED <<mode, server, srv, repo, out, ioFaults>>

Next ==
  \/ InitRepo
  \/ QueryChanges
  \/ SkipChange
  \/ FetchDetails
  \/ ExportPatch
  \/ ExportDoc
  \/ BuildIndex
  \/ SaveMetadata
  \/ StageIntoRepo
  \/ CommitFiles
  \/ ReturnSummary

Spec == Init /\ [][Next]_vars

\* Two calls of preserve_history in a row. The answers of the server list
\* the changes by ascending number with one creation time.
RerunResults ==
  {s \in QueryResults :
     \A i \in DOMAIN s :
       /\ s[i].created = 1
       /\ \A j \in DOMAIN s : i < j => s[i].number < s[j].number}

InitRerun == InitWith({"preserve"}, RerunResults)

NextRerun == Next \/ StartSecondRun

SpecRerun == InitRerun /\ [][NextRerun]_vars


\* ------------------------------------- export_changes_with_html, then
\* preserve_history on the same server with an output directory of its own
StartPreserve ==
  /\ mode = "export"
  /\ pc \in {"done", "aborted"}
  /\ ~second
  /\ second' = TRUE
  /\ first' = [pc |-> pc, result |-> result, repo |-> repo, out |-> out]
  /\ mode' = "preserve"
  /\ out' = {}
  /\ pc' = "init"
  /\ init_result' = "none"
  /\ changes' = <<>>
  /\ idx' = 0
  /\ patch_files' = <<>>
  /\ html_files' = <<>>
  /\ comments_map' = EmptyDict
  /\ files_map' = EmptyDict
  /\ safe_subject' = Unbound
  /\ commit_result' = "none"
  /\ result' = NoResult
  /\ log' = <<>>
  /\ UNCHANGED <<server, srv, repo, ioFaults>>

InitBoth == InitWith({"export"}, QueryResults)

NextBoth == Next \/ StartPreserve

SpecBoth == InitBoth /\ [][NextBoth]_vars

\* --------------------------------------------- an edit on the review server
\* The subject a change gets when it is edited on the server.
EditedSubject == <<"n", "e", "w">>

\* Between two calls the subject of one change is edited on the server.
EditSubject ==
  /\ pc \in {"done", "aborted"}
  /\ ~second
  /\ \A i \in DOMAIN server : server[i].subject = SubjectOf(server[i].number)
  /\ \E i \in DOMAIN server :
       server' = [server EXCEPT ![i].subject = EditedSubject]
  /\ UNCHANGED <<runs, mode, srv, repo, out, pc, init_result, locals,
                 commit_result, result, log, ioFaults>>

NextEdit == NextRerun \/ EditSubject

SpecEdit == InitRerun /\ [][NextEdit]_vars

\* ------------------------------------------------- termination of the process
\* The process is terminated from outside while preserve_history runs; no
\* handler cleans up. Inside init_repo and inside the copy loops the
\* termination falls after any number of their steps.
Terminate ==
  /\ pc \in {"init", "query", "loop", "patch", "doc", "metadata", "stage",
             "commit", "return"}
  /\ pc' = "killed"
  /\ \/ /\ pc = "init"
        /\ ~IsExistingRepo(repo)
        /\ \E k \in 1..Len(InitSteps) : repo' = RepoAfterInit(repo, k)
     \/ /\ pc = "stage"
        /\ LET cps == RepoCopies(out, init_result, patch_files, html_files) IN
           \E k \in 1..Len(cps) :
             repo' = [repo EXCEPT !.work = ApplyWrites(repo.work, cps, k)]
     \/ UNCHANGED repo
  /\ UNCHANGED <<runs, mode, server, srv, out, init_result, locals,
                 commit_result, result, log, ioFaults>>

NextTerminate == Next \/ Terminate

SpecTerminate == InitRerun /\ [][NextTerminate]_vars

\* ------------------------------------------------ the naming policy alone
\* The naming of one change's artifacts, applied to change numbers and
\* subjects that the pipeline above does not range over.
NamingNumbers == {1, 12, 999, 1000, 2345, 9999, 10000, 12345, 12346, 100000}

NamingAlphabet == {"a", "1", "-", " "}

\* 'Add user authentication feature'
SubjectAddUser ==
  <<"A", "d", "d", " ", "u", "s", "e", "r", " ", "a",
    "u", "t", "h", "e", "n", "t", "i", "c", "a", "t",
    "i", "o", "n", " ", "f", "e", "a", "t", "u", "r",
    "e">>

\* 'Fix validation bug'
SubjectFixBug ==
  <<"F", "i", "x", " ", "v", "a", "l", "i", "d", "a",
    "t", "i", "o", "n", " ", "b", "u", "g">>

\* A subject of k characters, every second one a blank.
LongSubject(k) == [i \in 1..k |-> IF i % 2 = 0 THEN " " ELSE "a"]

NamingSubjects ==
  UNION {[1..k -> NamingAlphabet] : k \in 0..MaxSubjectLen}
    \cup {SubjectAddUser, SubjectFixBug}
    \cup {LongSubject(k) : k \in (SubjectLimit - 1)..(SubjectLimit + MaxSubjectLen)}

NamingChanges ==
  {[number |-> n, subject |-> s, created |-> 1, rev |-> TRUE] :
     n \in NamingNumbers, s \in NamingSubjects}

\* The loop stands at a fetched change, before its names are computed.
InitNaming ==
  /\ mode \in {"preserve", "export"}
  /\ server \in {<<c>> : c \in NamingChanges}
  /\ srv = [n \in Numbers |-> "unknown"]
  /\ repo = AbsentRepo
  /\ out = {}
  /\ pc = "name"
  /\ init_result = "none"
  /\ changes = server
  /\ idx = 1
  /\ patch_files = <<>>
  /\ html_files = <<>>
  /\ comments_map = EmptyDict
  /\ files_map = EmptyDict
  /\ safe_subject = Unbound
  /\ commit_result = "none"
  /\ result = NoResult
  /\ log = <<>>
  /\ ioFaults = 0
  /\ second = FALSE
  /\ first = NoFirst

\* safe_subject, patch_filename and html_filename of the current change, and
\* the html_filename generate_index_html links to.
NameArtifacts ==
  /\ pc = "name"
  /\ safe_subject' = SafeSubject(Current.subject)
  /\ patch_files' = <<FileStem(Current.number, safe_subject')>>
  /\ html_files' = <<FileStem(Current.number, safe_subject')>>
  /\ out' = WriteFile(out, "html", IndexName, IndexRows(changes))
  /\ pc' = "named"
  /\ UNCHANGED <<runs, mode, server, srv, repo, init_result, changes, idx,
                 comments_map, files_map, commit_result, result, log, ioFaults>>

SpecNaming == InitNaming /\ [][NameArtifacts]_vars


\* ------------------------------------------ HTMLGenerator.generate_change_html
\* The file list and the inline comments of a change document. A dict is the
\* sequence of its <<key, value>> items in insertion order.
CommitMsgPath == "/COMMIT_MSG"

RenderPaths == {CommitMsgPath, "a.py", "b.py"}

DistinctKeys(d) == \A i, j \in DOMAIN d : i # j => d[i] # d[j]

KeyOrders ==
  {ks \in UNION {[1..k -> RenderPaths] : k \in 0..Cardinality(RenderPaths)} :
     DistinctKeys(ks)}

CommentLists == {[i \in 1..k |-> <<"comment", i>>] : k \in 0..MaxComments}

\* The answers of get_change_comments: path -> list of comments.
CommentDicts ==
  UNION {{[i \in DOMAIN ks |-> <<ks[i], v[i]>>] : v \in [DOMAIN ks -> CommentLists]} :
           ks \in KeyOrders}

\* The answers of get_change_files: path -> file info.
FileDicts == {[i \in DOMAIN ks |-> <<ks[i], "M">>] : ks \in KeyOrders}

\* Every path is listed.
EveryPathListed(file_path) == TRUE

\* if file_path == '/COMMIT_MSG': continue
ListedAsFile(file_path) == file_path # CommitMsgPath

\* _generate_files_html: one <li> per listed path.
GenerateFilesHtml(files) ==
  LET listed == SelectSeq(files, LAMBDA item : ListedAsFile(item[1]))
  IN  [i \in DOMAIN listed |-> listed[i][1]]

\* _generate_comments_html: '' for an empty dict, else one section per path
\* whose list of comments is not empty.
GenerateCommentsHtml(comments) ==
  IF comments = <<>> THEN [div |-> FALSE, sections |-> <<>>]
  ELSE [div |-> TRUE,
        sections |-> SelectSeq(comments, LAMBDA item : item[2] # <<>>)]

GenerateChangeHtml(comments, files) ==
  [comments_html |-> GenerateCommentsHtml(comments),
   files_html |-> GenerateFilesHtml(files)]

\* The loop stands at a change whose comments and files were fetched.
InitRender ==
  /\ mode \in {"preserve", "export"}
  /\ server \in {<<c>> : c \in {x \in ChangeSummaries : x.rev /\ x.created = 1}}
  /\ srv = [n \in Numbers |-> IF n = server[1].number THEN "ok" ELSE "unknown"]
  /\ repo = AbsentRepo
  /\ out = {}
  /\ pc = "render"
  /\ init_result = "none"
  /\ changes = server
  /\ idx = 1
  /\ patch_files = <<>>
  /\ html_files = <<>>
  /\ \E c \in CommentDicts : comments_map = DictSet(EmptyDict, server[1].number, c)
  /\ \E f \in FileDicts : files_map = DictSet(EmptyDict, server[1].number, f)
  /\ safe_subject = SafeSubject(server[1].subject)
  /\ commit_result = "none"
  /\ result = NoResult
  /\ log = <<>>
  /\ ioFaults = 0
  /\ second = FALSE
  /\ first = NoFirst

\* generate_change_html of the current change and the write of its document.
RenderChange ==
  /\ pc = "render"
  /\ LET n == Current.number
         stem == FileStem(n, safe_subject)
     IN  /\ out' = WriteFile(out, "html", stem,
                             GenerateChangeHtml(comments_map[n], files_map[n]))
         /\ html_files' = Append(html_files, stem)
  /\ pc' = "rendered"
  /\ UNCHANGED <<runs, mode, server, srv, repo, init_result, changes, idx,
                 patch_files, comments_map, files_map, safe_subject,
                 commit_result, result, log, ioFaults>>

SpecRender == InitRender /\ [][RenderChange]_vars

\* =================================================================== claims
InLog(kind, n) == \E i \in DOMAIN log : log[i] = <<kind, n>>

TimesInLog(kind, n) == Cardinality({i \in DOMAIN log : log[i] = <<kind, n>>})

HasPrefix(p, s) == Len(s) >= Len(p) /\ SubSeq(s, 1, Len(p)) = p

\* The file name starts with the padded number of change n and a dash.
NamedFor(n, name) == HasPrefix(PadNumber(n) \o <<"-">>, name)

ArtifactsOf(tree, dir, n) == {f \in FilesIn(tree, dir) : NamedFor(n, f[2])}

InList(list, n) == \E i \in DOMAIN list : NamedFor(n, list[i])

Preserving == mode = "preserve"

\* get_changes has answered in this call.
QueryAnswered == idx >= 1

\* The detail, comments and files fetches of change n have all succeeded.
AllFetched(n) == srv[n] \in {"ok", "patch"}

\* save_metadata has returned in this call.
MetadataDone == Preserving /\ pc \in {"stage", "commit", "return", "done"}

Aggregate == ContentOf(out, "metadata", AggregateName)

EntryNumber(e) == e.change[2]

NoDuplicateEntries(es) ==
  \A i, j \in DOMAIN es : i # j => EntryNumber(es[i]) # EntryNumber(es[j])

IndexContent == ContentOf(out, "html", IndexName)

ClientFetches == {"detail", "comments", "files", "patch"}

C2_SkippedChange ==
  pc = "done" =>
    \A i \in DOMAIN server :
      ~server[i].rev =>
        LET n == server[i].number IN
        /\ \A k \in ClientFetches : ~InLog(k, n)
        /\ ArtifactsOf(out, "patches", n) = {}
        /\ ArtifactsOf(out, "html", n) = {}
        /\ ~InList(patch_files, n) /\ ~InList(html_files, n)
        /\ result.patches_stored = Len(patch_files)
        /\ result.html_files = Len(html_files)
        /\ \E r \in DOMAIN IndexContent : IndexContent[r].number = n
        /\ Preserving => result.total_changes = Len(server)

C2_Witness ==
  /\ pc = "done"
  /\ Preserving
  /\ \E i, j \in DOMAIN server :
       /\ ~server[i].rev
       /\ InLog("begin", server[i].number)
       /\ InLog("wdoc", server[j].number)

\* ----------------------------------------------------------------------- C3
\* C3 as stated: when a call has returned, a change whose patch export failed
\* and whose document export did not itself fail has its document, and a
\* change whose document export failed and whose patch export did not has its
\* patch.
C3_IndependentWrites ==
  pc = "done" =>
    \A n \in Numbers :
      /\ (InLog("xpatch", n) /\ ~InLog("xdoc", n)) =>
           /\ InLog("wdoc", n)
           /\ <<"html", Identifier(n, SubjectOf(n)), "full">> \in out
      /\ (InLog("xdoc", n) /\ ~InLog("xpatch", n)) =>
           /\ InLog("wpatch", n)
           /\ <<"patches", Identifier(n, SubjectOf(n)), "full">> \in out

\* ----------------------------------------------------------------------- C4
\* C4 as stated: a run on a path that already held a repository leaves
\* nothing in the patches/ and html/ of the repository root, has its patches,
\* documents and index under gerrit-archive/, and makes no initial commit.
C4_StagedIntoArchive ==
  (pc = "done" /\ init_result = "path") =>
    /\ FilesIn(repo.work, "patches") = {}
    /\ FilesIn(repo.work, "html") = {}
    /\ \A i \in DOMAIN patch_files :
         HasFile(repo.work, ArchiveDir("patches"), patch_files[i])
    /\ \A i \in DOMAIN html_files :
         HasFile(repo.work, ArchiveDir("html"), html_files[i])
    /\ HasFile(repo.work, ArchiveDir("html"), IndexName)
    /\ ReadmeFile \notin repo.work

UnguardedStages == {"init", "query", "index", "metadata", "stage"}

C6_InitFailureAbortsFirst ==
  init_result = "False" =>
    /\ pc = "aborted"
    /\ result.kind = "init_failed"
    /\ log = <<<<"init", 0>>>>
    /\ out = {}
    /\ FilesIn(repo.work, "patches") = {}
    /\ FilesIn(repo.work, "html") = {}
    /\ commit_result = "none"
    /\ ~ENABLED Next

\* init_repo failed after it had created the repository.
C6_Witness ==
  /\ init_result = "False"
  /\ pc = "aborted"
  /\ repo.git

\* ----------------------------------------------------------------------- C7
PositionIn(s, n) == CHOOSE i \in DOMAIN s : s[i].number = n

Begun == SelectSeq(log, LAMBDA e : e[1] = "begin")

\* The changes are begun one after the other in the order of the list.
ProcessedInListOrder ==
  /\ Len(Begun) <= Len(changes)
  /\ \A k \in DOMAIN Begun : Begun[k][2] = changes[k].number

\* C7 as stated: preserve_history processes the changes by non-decreasing
\* creation time, and changes of equal creation time by ascending number.
C7_TiesByNumber ==
  (Preserving /\ QueryAnswered) =>
    /\ ProcessedInListOrder
    /\ \A i, j \in DOMAIN changes :
         i < j =>
           \/ changes[i].created < changes[j].created
           \/ /\ changes[i].created = changes[j].created
              /\ changes[i].number < changes[j].number

\* C7 amended: preserve_history processes the changes the server returned,
\* each once, by non-decreasing creation time, and changes of equal creation
\* time in the order in which the server returned them.
C7_TiesInServerOrder ==
  (Preserving /\ QueryAnswered) =>
    /\ ProcessedInListOrder
    /\ Len(changes) = Len(server)
    /\ \A i \in DOMAIN server : \E j \in DOMAIN changes : changes[j] = server[i]
    /\ \A i, j \in DOMAIN changes :
         i < j =>
           \/ changes[i].created < changes[j].created
           \/ /\ changes[i].created = changes[j].created
              /\ PositionIn(server, changes[i].number)
                   < PositionIn(server, changes[j].number)

\* Two changes of one creation time, returned by descending number, were
\* both processed.
C7_Witness ==
  /\ Preserving
  /\ pc = "done"
  /\ \E i, j \in DOMAIN server :
       /\ i < j
       /\ server[i].created = server[j].created
       /\ server[i].number > server[j].number
       /\ Len(Begun) = Len(server)

\* ----------------------------------------------------------------------- C8
\* The fetches that follow fetch k of a change.
LaterFetches(k) ==
  IF k = "detail" THEN {"comments", "files", "patch"}
  ELSE IF k = "comments" THEN {"files", "patch"}
  ELSE {"patch"}

\* The server fails the detail, comments or files fetch of n, and the call
\* has issued that fetch.
FetchHasFailed(n) ==
  srv[n] \in {"detail", "comments", "files"} /\ InLog(srv[n], n)

\* C8: in either function, when the detail, comments or files fetch of a
\* change has failed, that fetch was issued once, no later fetch of the change
\* was issued, no patch and no document of the change was written, and right
\* after the failure the loop stands at the next change; and when the call
\* has returned, every change of the list was begun and preserve_history
\* counts them all in total_changes.
C8_FetchFailureIsScoped ==
  /\ \A n \in Numbers :
       FetchHasFailed(n) =>
         /\ TimesInLog(srv[n], n) = 1
         /\ \A k \in LaterFetches(srv[n]) : ~InLog(k, n)
         /\ ~InLog("wpatch", n) /\ ~InLog("wdoc", n)
         /\ ArtifactsOf(out, "patches", n) = {}
         /\ ArtifactsOf(out, "html", n) = {}
         /\ log[Len(log)] = <<srv[n], n>> =>
              (pc = "loop" /\ idx = PositionIn(changes, n) + 1)
  /\ pc = "done" =>
       /\ Len(Begun) = Len(server)
       /\ Preserving => result.total_changes = Len(server)

\* A failed fetch of the first change, and the second one exported.
C8_Witness ==
  /\ pc = "done"
  /\ Len(changes) = 2
  /\ FetchHasFailed(changes[1].number)
  /\ InLog("wdoc", changes[2].number)

\* ----------------------------------------------------------------------- C9
\* C9 as stated: when only the comments fetch of a change fails, the call
\* still writes the patch and the document of the change.
C9_CommentsFailureKeepsArtifacts ==
  pc = "done" =>
    \A n \in Numbers :
      (srv[n] = "comments" /\ InLog("comments", n) /\ ioFaults = 0) =>
        /\ InLog("wpatch", n)
        /\ InLog("wdoc", n)

\* C9 amended: when the comments fetch of a change fails, the files and the
\* patch of the change are not fetched and neither its patch nor its
\* document is produced; the call still returns and preserve_history's total
\* count is unaffected.
C9_CommentsFailureDropsChange ==
  pc = "done" =>
    \A n \in Numbers :
      (srv[n] = "comments" /\ InLog("comments", n)) =>
        /\ ~InLog("files", n) /\ ~InLog("patch", n)
        /\ ~InList(patch_files, n) /\ ~InList(html_files, n)
        /\ ArtifactsOf(out, "patches", n) = {}
        /\ ArtifactsOf(out, "html", n) = {}
        /\ Preserving => result.total_changes = Len(server)

C9_Witness ==
  /\ pc = "done"
  /\ \E n \in Numbers : srv[n] = "comments" /\ InLog("comments", n)

\* ---------------------------------------------------------------------- C10
\* C10: when a second call of preserve_history has returned and no file
\* operation or git command failed in either call (the server answering in
\* the second call as in the first), the first call had returned its summary,
\* the second commit_files reported that nothing changed, the repository has
\* the commits and the committed tree it had after the first call, and the
\* second call returned its summary.
C10_SecondCommitIsNoOp ==
  (second /\ pc = "done" /\ ioFaults = 0) =>
    /\ first.pc = "done"
    /\ first.result.kind = "summary"
    /\ commit_result = "False"
    /\ repo.commits = first.repo.commits
    /\ repo.head = first.repo.head
    /\ repo.work = repo.head
    /\ result = first.result

\* The first call committed patches and documents.
C10_Witness ==
  /\ second
  /\ pc = "done"
  /\ ioFaults = 0
  /\ Len(patch_files) > 0
  /\ Len(html_files) > 0
  /\ FilesIn(first.repo.head, "patches") # {}

\* generate_index_html has written the index document completely in this call.
IndexWritten ==
  /\ InLog("index", 0)
  /\ ~(pc = "aborted" /\ log[Len(log)] = <<"index", 0>>)

\* ---------------------------------------------------------------------- C11
\* C11 as stated: in either function, every patch file and every document
\* written for a change, and the link of the change's row in the index, are
\* named with the identifier of the change's own number and subject.
C11_SharedIdentifier ==
  \A i \in DOMAIN changes :
    LET n == changes[i].number
        id == Identifier(n, changes[i].subject)
    IN  /\ \A f \in ArtifactsOf(out, "patches", n) \cup ArtifactsOf(out, "html", n) :
             f[2] = id
        /\ IndexWritten => IndexContent[i].href = id

\* ---------------------------------------------------------------------- C12
\* C12 as stated: in a written index, the document a row links to exists,
\* completely written, under the output directory.
C12_LinksOnlyExistingDocuments ==
  IndexWritten =>
    \A r \in DOMAIN IndexContent :
      <<"html", IndexContent[r].href, "full">> \in out

\* ------------------------------------------------- claims on the naming policy
\* The names of the current change have been computed.
Named == pc = "named"

NamingInputs == NamingNumbers \X NamingSubjects

\* The identifier of every input the naming policy is applied to.
AllIdentifiers == [x \in NamingInputs |-> Identifier(x[1], x[2])]

\* ---------------------------------------------------------------------- C13
\* C13: the patch name, the document name and the index link computed for
\* one (number, subject) are the same identifier, the one any evaluation on
\* that input gives; and no input with a different number, whatever its
\* subject, has that identifier.
C13_CollisionFree ==
  Named =>
    LET c == changes[1]
        id == patch_files[1]
    IN  /\ html_files[1] = id
        /\ IndexContent[1].href = id
        /\ AllIdentifiers[<<c.number, c.subject>>] = id
        /\ \A x \in NamingInputs : x[1] # c.number => AllIdentifiers[x] # id

\* A four-digit number whose last digits are those of a five-digit one.
C13_Witness ==
  /\ Named
  /\ changes[1].number = 2345
  /\ changes[1].subject = SubjectFixBug

\* ---------------------------------------------------------------------- C14
NumberOfDigits(n) == IF n < 10 THEN 1 ELSE IF n < 100 THEN 2
                     ELSE IF n < 1000 THEN 3 ELSE IF n < 10000 THEN 4
                     ELSE IF n < 100000 THEN 5 ELSE 6

DigitValue(ch) == CHOOSE d \in 0..9 : DigitChar(d) = ch

IsDigit(ch) == \E d \in 0..9 : DigitChar(d) = ch

RECURSIVE ValueOf(_)
ValueOf(s) == IF s = <<>> THEN 0
              ELSE 10 * ValueOf(SubSeq(s, 1, Len(s) - 1)) + DigitValue(s[Len(s)])

Letters ==
  {"a", "b", "c", "d", "e", "f", "g", "h", "i", "j", "k", "l", "m", "n", "o",
   "p", "q", "r", "s", "t", "u", "v", "w", "x", "y", "z",
   "A", "B", "C", "D", "E", "F", "G", "H", "I", "J", "K", "L", "M", "N", "O",
   "P", "Q", "R", "S", "T", "U", "V", "W", "X", "Y", "Z"}

\* C14: the identifier is the decimal number, zero-padded to four digits
\* and never shortened, then '-', then the first 50 characters of the subject
\* with every character other than a letter, a digit, '-' or '_' replaced by
\* '_'; the subject part has at most 50 characters, and for an empty subject
\* the identifier ends with the '-'.
C14_IdentifierFormat ==
  Named =>
    LET n == changes[1].number
        s == changes[1].subject
        id == patch_files[1]
        w == IF NumberOfDigits(n) < 4 THEN 4 ELSE NumberOfDigits(n)
        k == IF Len(s) > 50 THEN 50 ELSE Len(s)
    IN  /\ Len(id) = w + 1 + k
        /\ \A i \in 1..w : IsDigit(id[i])
        /\ ValueOf(SubSeq(id, 1, w)) = n
        /\ id[w + 1] = "-"
        /\ \A i \in 1..k :
             id[w + 1 + i] =
               IF s[i] \in Letters \/ IsDigit(s[i]) \/ s[i] \in {"-", "_"}
                 THEN s[i] ELSE "_"
        /\ Len(safe_subject) <= 50
        /\ safe_subject = SubSeq(id, w + 2, Len(id))
        /\ s = <<>> => Len(id) = w + 1

\* A six-digit number with a subject of more than 50 characters.
C14_Witness ==
  /\ Named
  /\ changes[1].number = 100000
  /\ Len(changes[1].subject) > 50
  /\ Len(patch_files[1]) = 57

\* ---------------------------------------------------------------------- C15
\* C15 as stated: change 12345 'Add user authentication feature' is named
\* 0012345-Add_user_authentication_feature and change 12346
\* 'Fix validation bug' is named 0012346-Fix_validation_bug.
C15_TwoLeadingZeros ==
  Named =>
    /\ (changes[1].number = 12345 /\ changes[1].subject = SubjectAddUser) =>
         patch_files[1] =
           <<"0", "0", "1", "2", "3", "4", "5", "-", "A", "d",
             "d", "_", "u", "s", "e", "r", "_", "a", "u", "t",
             "h", "e", "n", "t", "i", "c", "a", "t", "i", "o",
             "n", "_", "f", "e", "a", "t", "u", "r", "e">>
    /\ (changes[1].number = 12346 /\ changes[1].subject = SubjectFixBug) =>
         patch_files[1] =
           <<"0", "0", "1", "2", "3", "4", "6", "-", "F", "i",
             "x", "_", "v", "a", "l", "i", "d", "a", "t", "i",
             "o", "n", "_", "b", "u", "g">>

\* C15 amended: change 12345 'Add user authentication feature' is named
\* 12345-Add_user_authentication_feature and change 12346
\* 'Fix validation bug' is named 12346-Fix_validation_bug: a five-digit
\* number is rendered as it is, without leading zeros.
C15_FiveDigitsUnpadded ==
  Named =>
    /\ (changes[1].number = 12345 /\ changes[1].subject = SubjectAddUser) =>
         /\ patch_files[1] =
              <<"1", "2", "3", "4", "5", "-", "A", "d", "d", "_",
                "u", "s", "e", "r", "_", "a", "u", "t", "h", "e",
                "n", "t", "i", "c", "a", "t", "i", "o", "n", "_",
                "f", "e", "a", "t", "u", "r", "e">>
         /\ html_files[1] = patch_files[1]
         /\ IndexContent[1].href = patch_files[1]
    /\ (changes[1].number = 12346 /\ changes[1].subject = SubjectFixBug) =>
         /\ patch_files[1] =
              <<"1", "2", "3", "4", "6", "-", "F", "i", "x", "_",
                "v", "a", "l", "i", "d", "a", "t", "i", "o", "n",
                "_", "b", "u", "g">>
         /\ html_files[1] = patch_files[1]
         /\ IndexContent[1].href = patch_files[1]

C15_Witness ==
  /\ Named
  /\ changes[1].number = 12345
  /\ changes[1].subject = SubjectAddUser

\* ---------------------------------------------------------------------- C16
\* C16: in either function, a written index has one row per queried change,
\* and its rows are in the order in which the call began the changes.
C16_IndexInProcessingOrder ==
  IndexWritten =>
    /\ Len(IndexContent) = Len(server)
    /\ Len(Begun) = Len(IndexContent)
    /\ \A k \in DOMAIN IndexContent : IndexContent[k].number = Begun[k][2]

\* The sort of preserve_history changed the order the server answered in.
C16_Witness ==
  /\ IndexWritten
  /\ Preserving
  /\ Len(changes) = 2
  /\ changes # server
  /\ InLog("wdoc", changes[1].number)

\* ---------------------------------------------------------------------- C17
\* C17 as stated: once the metadata is written, the entry of a change whose
\* fetches succeeded holds, in the aggregate and in the per-change file, the
\* detail returned by get_change_detail together with the fetched comments
\* and files.
C17_EntryHoldsDetail ==
  MetadataDone =>
    \A i \in DOMAIN changes :
      LET n == changes[i].number
          e == [change |-> DetailOf(n), comments |-> CommentsOf(n),
                files |-> FilesOf(n)]
      IN  AllFetched(n) =>
            /\ Aggregate.changes[i] = e
            /\ <<"metadata", ChangeFileName(n), e>> \in out

\* C17 amended: once the metadata is written, the entry of a change whose
\* fetches succeeded holds, in the aggregate and in the per-change file, the
\* change object the query returned (not the detail fetched for it) together
\* with the fetched comments and files.
C17_EntryHoldsQuerySummary ==
  MetadataDone =>
    \A i \in DOMAIN changes :
      LET n == changes[i].number
          e == [change |-> <<"summary", n>>, comments |-> CommentsOf(n),
                files |-> FilesOf(n)]
      IN  AllFetched(n) =>
            /\ InLog("detail", n)
            /\ Aggregate.changes[i] = e
            /\ <<"metadata", ChangeFileName(n), e>> \in out

C17_Witness ==
  /\ MetadataDone
  /\ \E i \in DOMAIN changes :
       /\ AllFetched(changes[i].number)
       /\ InLog("detail", changes[i].number)
       /\ Aggregate.changes[i].comments = CommentsOf(changes[i].number)

\* ---------------------------------------------------------------------- C18
\* C18: the summary preserve_history returns counts every change the query
\* returned in total_changes, the changes whose patch write completed in this
\* call in patches_stored and those whose document write completed in
\* html_files, and names the repository path, the branch and the index path
\* of the call.
C18_SummaryCounts ==
  (Preserving /\ pc = "done") =>
    /\ result.kind = "summary"
    /\ result.total_changes = Len(server)
    /\ result.patches_stored = Cardinality({n \in Numbers : InLog("wpatch", n)})
    /\ result.html_files = Cardinality({n \in Numbers : InLog("wdoc", n)})
    /\ \A n \in Numbers :
         /\ InLog("wpatch", n) => TimesInLog("wpatch", n) = 1
         /\ InLog("wdoc", n) => TimesInLog("wdoc", n) = 1
    /\ result.repo_path = "repo_path"
    /\ result.branch_name = "gerrit-history"
    /\ result.html_index = <<"output_dir", "html", <<"index">>>>

\* Two changes were queried and the patch of only one of them was written.
C18_Witness ==
  /\ Preserving
  /\ pc = "done"
  /\ result.total_changes = 2
  /\ result.patches_stored = 1
  /\ \E n \in Numbers : InLog("xpatch", n)

\* ---------------------------------------------------------------------- C19
\* C19: when the query returns no change, preserve_history issues no client
\* call besides the query, does not abort unless a file or git operation
\* fails, can take each of its steps up to the return, and returns a summary
\* with total_changes = 0 after writing an index without rows and an
\* aggregate metadata document with an empty list of changes.
C19_EmptyQuery ==
  (Preserving /\ server = <<>>) =>
    /\ \A i \in DOMAIN log : log[i][1] \notin ClientFetches \cup {"begin"}
    /\ ioFaults = 0 => pc # "aborted"
    /\ pc \notin {"done", "aborted"} => ENABLED Next
    /\ IndexWritten => IndexContent = <<>>
    /\ MetadataDone =>
         /\ Aggregate.changes = <<>>
         /\ Aggregate.total_changes = 0
    /\ pc = "done" =>
         /\ result.kind = "summary"
         /\ result.total_changes = 0
         /\ result.patches_stored = 0
         /\ result.html_files = 0
         /\ IndexWritten
         /\ FilesIn(out, "patches") = {}

\* The run on an empty answer has committed its index.
C19_Witness ==
  /\ Preserving
  /\ server = <<>>
  /\ pc = "done"
  /\ InLog("query", 0)
  /\ commit_result = "True"

\* ---------------------------------------------------------------------- C20
\* C20: once save_metadata has returned, the metadata directory holds the
\* aggregate document and one document per change number it was given, and
\* nothing else (three files for two changes), and the aggregate's
\* total_changes is the length of its list of changes.
C20_MetadataFiles ==
  MetadataDone =>
    /\ FilesIn(out, "metadata") =
         {<<"metadata", AggregateName, Aggregate>>}
           \cup {<<"metadata", ChangeFileName(changes[i].number),
                   Aggregate.changes[i]>> : i \in DOMAIN changes}
    /\ Cardinality(FilesIn(out, "metadata")) = 1 + Len(changes)
    /\ Len(changes) = 2 => Cardinality(FilesIn(out, "metadata")) = 3
    /\ Aggregate.total_changes = Len(Aggregate.changes)

C20_Witness ==
  /\ MetadataDone
  /\ Len(changes) = 2
  /\ Cardinality(FilesIn(out, "metadata")) = 3
  /\ Aggregate.total_changes = 2

\* ---------------------------------------------------------------------- C21
\* C21 as stated: no patch file and no change document under the output
\* directory is ever truncated: a write either completes or leaves no file.
C21_NoPartialFiles ==
  \A f \in FilesIn(out, "patches") \cup FilesIn(out, "html") :
    f[2] # IndexName => f[3] # "partial"

\* ---------------------------------------------------------------------- C22
\* C22 as stated: whenever the process was terminated during a run of
\* preserve_history, the repository, if there is one, has its initial commit
\* and, when the run created it, the preservation branch checked out, and
\* holds no file that is not committed.
C22_ConsistentWhenTerminated ==
  pc = "killed" =>
    /\ repo.git => repo.commits >= 1
    /\ (repo.git /\ init_result # "path" /\ first.pc = "none") =>
         repo.branch = BranchName
    /\ repo.work = repo.head

\* ---------------------------------------------------------------------- C23
\* The document rendered for the current change.
RenderedDoc == ContentOf(out, "html", html_files[1])

\* C23: in a rendered change document the file list never names /COMMIT_MSG
\* and names every other path of the fetched files, and the comments section
\* has, for every path with at least one comment, /COMMIT_MSG included, a
\* section with all the comments of that path.
C23_CommitMsgOnlyInComments ==
  pc = "rendered" =>
    LET n == changes[1].number
        comments == comments_map[n]
        files == files_map[n]
        listed == {RenderedDoc.files_html[i] : i \in DOMAIN RenderedDoc.files_html}
        sections == {RenderedDoc.comments_html.sections[i] :
                       i \in DOMAIN RenderedDoc.comments_html.sections}
    IN  /\ "/COMMIT_MSG" \notin listed
        /\ \A i \in DOMAIN files : files[i][1] # "/COMMIT_MSG" => files[i][1] \in listed
        /\ \A i \in DOMAIN comments :
             Len(comments[i][2]) > 0 => <<comments[i][1], comments[i][2]>> \in sections

\* /COMMIT_MSG is among the files and has a comment, next to another path.
C23_Witness ==
  /\ pc = "rendered"
  /\ \E i, j \in DOMAIN files_map[changes[1].number] :
       /\ files_map[changes[1].number][i][1] = "/COMMIT_MSG"
       /\ files_map[changes[1].number][j][1] = "a.py"
  /\ \E i \in DOMAIN RenderedDoc.comments_html.sections :
       RenderedDoc.comments_html.sections[i][1] = "/COMMIT_MSG"
  /\ Len(RenderedDoc.files_html) >= 1

\* ---------------------------------------------------------------------- C24
\* The place of a logged event in the order of the stages.
StageRank(e) ==
  IF e[1] = "init" THEN 1
  ELSE IF e[1] = "query" THEN 2
  ELSE IF e[1] = "index" THEN 4
  ELSE IF e[1] = "metadata" THEN 5
  ELSE IF e[1] = "stage" THEN 6
  ELSE IF e[1] = "commit" THEN 7
  ELSE 3

\* The place of a logged event among the steps of one change.
StepRank(e) ==
  IF e[1] = "begin" THEN 1
  ELSE IF e[1] = "detail" THEN 2
  ELSE IF e[1] = "comments" THEN 3
  ELSE IF e[1] = "files" THEN 4
  ELSE IF e[1] = "patch" THEN 5
  ELSE IF e[1] \in {"wpatch", "xpatch"} THEN 6
  ELSE 7

\* C24: when preserve_history has returned, its log starts with the
\* initialization and the query, ends with the index, the metadata export,
\* the copy into the repository and the commit, each stage once, and holds
\* only steps of changes in between; the steps of a change are in the order
\* fetches, patch, document, and every step of a change comes before every
\* step of the changes that follow it in the list.
C24_LinearStages ==
  (Preserving /\ pc = "done") =>
    /\ SelectSeq(log, LAMBDA e : e[2] = 0) =
         <<<<"init", 0>>, <<"query", 0>>, <<"index", 0>>, <<"metadata", 0>>,
           <<"stage", 0>>, <<"commit", 0>>>>
    /\ \A i \in 1..(Len(log) - 1) :
         LET a == log[i]
             b == log[i + 1]
         IN  /\ StageRank(a) <= StageRank(b)
             /\ (StageRank(a) = 3 /\ StageRank(b) = 3) =>
                  \/ PositionIn(changes, a[2]) < PositionIn(changes, b[2])
                  \/ /\ a[2] = b[2]
                     /\ StepRank(a) < StepRank(b)

\* Two changes went through all of their steps.
C24_Witness ==
  /\ Preserving
  /\ pc = "done"
  /\ Len(changes) = 2
  /\ InLog("wdoc", changes[1].number)
  /\ InLog("wdoc", changes[2].number)

\* ---------------------------------------------------------------------- C25
\* C25 as stated: whatever runs were made on the repository, its patches/
\* folder holds at most one patch file and its html/ folder at most one
\* document per change number.
C25_OneFilePerChange ==
  \A n \in Numbers :
    /\ Cardinality(ArtifactsOf(repo.work, "patches", n)) <= 1
    /\ Cardinality(ArtifactsOf(repo.work, "html", n)) <= 1

\* ---------------------------------------------------------------------- C26
\* C26 as stated: when commit_files has returned False, which
\* preserve_history reports as `no changes to commit`, the working tree of
\* the repository held nothing that is not committed.
C26_NoOpOnlyWhenNothingPending ==
  (Preserving /\ commit_result = "False") => repo.work = repo.head

\* ---------------------------------------------------------------------- C27
\* C27 as stated: when preserve_history has returned its summary, the branch
\* checked out in the repository, which received the commit of the run, is
\* the branch the summary names.
C27_SummaryBranchCheckedOut ==
  (Preserving /\ pc = "done") => repo.branch = result.branch_name

\* ---------------------------------------------------------------------- C28
\* The first call failed in init_repo on a path that held no repository.
FirstInitFailedOnFreshPath ==
  /\ second
  /\ first.result.kind = "init_failed"
  /\ first.repo # UserRepo

\* C28 as stated: after init_repo failed on a path without a repository, a
\* later init_repo on that path fails again or leaves a repository that has
\* the initial commit and the preservation branch checked out.
C28_HalfInitNotAccepted ==
  (FirstInitFailedOnFreshPath /\ init_result # "none") =>
    \/ init_result = "False"
    \/ /\ repo.commits >= 1
       /\ repo.branch = BranchName

\* ---------------------------------------------------------------------- C29
\* C29: in a call of preserve_history every document written has its patch
\* written before it, in the lists and in the log, and the summary returned
\* has html_files <= patches_stored <= total_changes.
C29_DocumentsHavePatches ==
  Preserving =>
    /\ \A i \in DOMAIN html_files : \E j \in DOMAIN patch_files :
         patch_files[j] = html_files[i]
    /\ \A n \in Numbers : InLog("wdoc", n) => InLog("wpatch", n)
    /\ pc = "done" =>
         /\ result.html_files <= result.patches_stored
         /\ result.patches_stored <= result.total_changes

\* One change was skipped and the document of the other one failed.
C29_Witness ==
  /\ Preserving
  /\ pc = "done"
  /\ result.html_files < result.patches_stored
  /\ result.patches_stored < result.total_changes

\* ---------------------------------------------------------------------- C30
FileNames(tree, dir) == {f[2] : f \in FilesIn(tree, dir)}

\* export_changes_with_html and then preserve_history have both returned,
\* and no fetch, render, write or git command failed in either.
BothSucceeded ==
  /\ second
  /\ first.pc = "done"
  /\ pc = "done"
  /\ ioFaults = 0
  /\ \A n \in Numbers : srv[n] \in {"unknown", "ok"}

\* The index export_changes_with_html wrote.
ExportIndex == ContentOf(first.out, "html", IndexName)

CreatedOf(n) == server[PositionIn(server, n)].created

\* The server answered in non-decreasing order of creation time.
AnsweredByCreated ==
  \A i, j \in DOMAIN server : i < j => server[i].created <= server[j].created

\* C30 as stated: when both functions ran on the same query result and
\* nothing failed, their output directories hold the same patch and document
\* file names and an index with the same rows in the same order.
C30_SameOutput ==
  BothSucceeded =>
    /\ FileNames(out, "patches") = FileNames(first.out, "patches")
    /\ FileNames(out, "html") = FileNames(first.out, "html")
    /\ IndexContent = ExportIndex

\* C30 amended: when both functions ran on the same query result and nothing
\* failed, their output directories hold the same patch and document file
\* names and indexes with the same rows; the index of
\* export_changes_with_html has them in the order of the server's answer,
\* the index of preserve_history by creation time, so the two orders agree
\* exactly when the server answered in non-decreasing order of creation time.
C30_SameFilesOrderBySort ==
  BothSucceeded =>
    /\ FileNames(out, "patches") = FileNames(first.out, "patches")
    /\ FileNames(out, "html") = FileNames(first.out, "html")
    /\ Len(IndexContent) = Len(ExportIndex)
    /\ {IndexContent[k] : k \in DOMAIN IndexContent}
         = {ExportIndex[k] : k \in DOMAIN ExportIndex}
    /\ \A k \in DOMAIN ExportIndex : ExportIndex[k].number = server[k].number
    /\ \A i, j \in DOMAIN IndexContent :
         i < j => CreatedOf(IndexContent[i].number) <= CreatedOf(IndexContent[j].number)
    /\ AnsweredByCreated <=> IndexContent = ExportIndex

\* The server answered with the later change first; both were exported.
C30_Witness ==
  /\ BothSucceeded
  /\ Len(server) = 2
  /\ server[1].created > server[2].created
  /\ Len(html_files) = 2
  /\ Cardinality(FileNames(first.out, "patches")) = 2

====
